---- MODULE Spec2Model ----
(***************************************************************************)
(* monitrix: the downtime aggregation of the HTTP API (calculateStats in   *)
(* internal/api/server.go), modelled as the range loop over the log        *)
(* entries followed by the code after the loop.                            *)
(*                                                                         *)
(* Time is counted in whole seconds.  A *time.Time or *DowntimeEvent is a  *)
(* sequence of length at most one: <<>> is nil, <<v>> points to v.         *)
(* A float64 quotient is kept as the exact fraction <<num, den>> in lowest *)
(* terms; on the small integers of the model two quotients are equal as    *)
(* float64 exactly when the fractions are equal.                           *)
(*                                                                         *)
(* Two more specifications share the module: SpecStore, the log files of   *)
(* internal/storage (NewFileStorage, Save, ReadLogs), and SpecMon, the     *)
(* goroutines of main (Monitor.Start, the storage writer, the shutdown).   *)
(* SpecPing is one call of Monitor.Ping, from its first statement to its   *)
(* return.  Each specification leaves the variables of the others at rest. *)
(***************************************************************************)
EXTENDS Integers, Sequences, FiniteSets, TLC

\* ------------------------------------------------------------ bounds
\* Number of log entries handed to calculateStats.
MaxRounds == 3
\* Number of configured hosts; PingAll returns one result per host.
MaxHosts == 2
\* Clock range: timestamps and the query time lie in 1..MaxTime.
MaxTime == 3
\* Clock range of the log files: Save stamps its entries in 1..MaxClock.
MaxClock == 4
\* Clock readings per calendar day.
TicksPerDay == 2
\* Number of Save calls in a history of the log files.
MaxSaves == 3
\* Number of PingAll rounds the monitor starts.
MaxBatches == 4
\* make(chan []monitor.PingResult, 10): the capacity of resultChan.
ChanCap == 10
\* pingTimeout := 5 * time.Second, in milliseconds.
timeout == 5000
\* maxAcceptableLatency := int64(10000), in milliseconds.
maxAcceptableLatency == 10000

\* ------------------------------------------------------------ data
\* Default hosts of getHosts, in order.
HostNames == <<"1.1.1.1", "8.8.8.8", "google.com", "cloudflare.com", "github.com">>

\* The hosts the monitor is configured with.
hosts == SubSeq(HostNames, 1, MaxHosts)

\* PingAll: one PingResult per configured host, in the order of hosts.
\* Only the fields calculateStats reads are kept.
PingAll == { [i \in 1..Len(hosts) |-> [Host |-> hosts[i], Success |-> ok[i]]] :
               ok \in [1..Len(hosts) -> BOOLEAN] }

\* The Results of a LogEntry decoded by ReadLogs: a batch stored by Save, or
\* none when the decoded line carries no results.
ResultLists == PingAll \cup {<<>>}

\* The batches of monitors configured with the first n hosts, for every n up
\* to MaxHosts (the monitor restarted with another MONITOR_HOSTS), and the
\* entry without results.
ResultListsOfAnyConfig ==
  { [i \in 1..n |-> [Host |-> hosts[i], Success |-> ok[i]]] :
      n \in 0..Len(hosts), ok \in [1..Len(hosts) -> BOOLEAN] }

\* The zero time.Time, before every timestamp.
ZeroTime == 0

VARIABLES
  logs,    \* the entries of the input the range loop has visited, in order
  locals,  \* the local variables of calculateStats
  pc,      \* "loop" inside the range loop, "done" after the return
  now,     \* the clock reading of time.Since after the loop
  stats    \* the Stats value returned

VARIABLES
  clock,      \* time.Now() of the storage, in 1..MaxClock
  files,      \* the log files of the data directory: file name -> entries
  fsFile,     \* FileStorage.filePath of the running process: <<>> or <<name>>
  storePc,    \* "history" while files are written, "read" after ReadLogs
  readArgs,   \* the arguments <<startTime, endTime>> of ReadLogs
  readResult  \* the entries ReadLogs returned

VARIABLES
  mainPc,     \* main: "running", "sleeping", "closed", "exited"
  monPc,      \* Monitor.Start: "pingAll", "send", "select", "returned", "panic"
  produced,   \* number of batches PingAll has returned to Start
  resultChan, \* the buffer of resultChan, oldest batch first
  wHeld       \* the batch the storage writer received and has not saved yet

VARIABLES
  pingPc,     \* Ping: "lookup", "dial", "returned"
  result,     \* the PingResult Ping builds and returns
  sinceStart, \* time.Since(start) in milliseconds
  port,       \* index into ports of the port being dialled
  lastErr     \* lastErr of Ping: <<>> (nil) or <<error>>

calcVars == <<logs, locals, pc, now, stats>>

pingVars == <<pingPc, result, sinceStart, port, lastErr>>

storeVars == <<clock, files, fsFile, storePc, readArgs, readResult>>

monVars == <<mainPc, monPc, produced, resultChan, wHeld>>

vars == <<calcVars, storeVars, monVars, pingVars>>

\* ------------------------------------------------------------ helpers
RECURSIVE GCD(_, _)
GCD(a, b) == IF b = 0 THEN a ELSE GCD(b, a % b)

\* The float64 value n / d for d > 0, as a fraction in lowest terms.
Float(n, d) == LET g == GCD(IF n < 0 THEN -n ELSE n, d)
               IN  IF n = 0 THEN <<0, 1>> ELSE <<n \div g, d \div g>>

\* ------------------------------------------------------------ loop body
\* allFailed with the flag overwritten by every result instead of only
\* cleared by a success: the last result decides.
allFailed_lastResult(results) ==
  IF results = <<>> THEN TRUE ELSE ~results[Len(results)].Success

\* allFailed after the inner loop over entry.Results: it starts true and a
\* successful result clears it.
allFailed(results) == \A i \in 1..Len(results) : ~results[i].Success

\* failedHosts after the inner loop: the hosts of the failed results, in order.
RECURSIVE failedHosts(_)
failedHosts(results) ==
  IF results = <<>> THEN <<>>
  ELSE IF Head(results).Success THEN failedHosts(Tail(results))
       ELSE <<Head(results).Host>> \o failedHosts(Tail(results))

\* The locals declared before the loop.
InitLocals ==
  [ downtimeEvents       |-> <<>>,
    onlineChecks         |-> 0,
    offlineChecks        |-> 0,
    totalDowntimeSeconds |-> 0,
    lastStatus           |-> FALSE,
    downtimeStart        |-> ZeroTime,
    downtimeFailedHosts  |-> <<>>,
    lastCheckTime        |-> <<>>,
    currentStatus        |-> "online",
    statusInitialized    |-> FALSE ]

\* "Check if this ends a downtime period": the condition.
endsDowntime(st) == st.statusInitialized /\ ~st.lastStatus

\* startsDowntime without "|| lastStatus": only the first entry can start a
\* downtime period.
startsDowntime_firstOnly(st) == ~st.statusInitialized

\* startsDowntime without its condition: every offline entry restarts the
\* downtime period.
startsDowntime_always(st) == TRUE

\* "Check if this starts a new downtime period": the condition.
startsDowntime(st) == ~st.statusInitialized \/ st.lastStatus

\* The DowntimeEvent appended when an online entry ends a downtime period.
closedEvent(st, entry) ==
  [ StartTime   |-> st.downtimeStart,
    EndTime     |-> <<entry.Timestamp>>,
    Duration    |-> entry.Timestamp - st.downtimeStart,
    IsOngoing   |-> FALSE,
    FailedHosts |-> st.downtimeFailedHosts ]

\* onlineBranch without "lastStatus = true": the downtime period stays open
\* after it was closed.
onlineBranch_keepOpen(st, entry) ==
  [st EXCEPT !.onlineChecks = @ + 1,
             !.downtimeEvents =
                IF endsDowntime(st) THEN Append(@, closedEvent(st, entry)) ELSE @,
             !.totalDowntimeSeconds =
                IF endsDowntime(st) THEN @ + (entry.Timestamp - st.downtimeStart) ELSE @,
             !.currentStatus = "online"]

\* onlineBranch that drops a downtime period whose end lies before its start.
onlineBranch_dropNegative(st, entry) ==
  LET closes == endsDowntime(st) /\ entry.Timestamp >= st.downtimeStart
  IN  [st EXCEPT !.onlineChecks = @ + 1,
                 !.downtimeEvents =
                    IF closes THEN Append(@, closedEvent(st, entry)) ELSE @,
                 !.totalDowntimeSeconds =
                    IF closes THEN @ + (entry.Timestamp - st.downtimeStart) ELSE @,
                 !.lastStatus = TRUE,
                 !.currentStatus = "online"]

\* onlineBranch without "totalDowntimeSeconds += duration".
onlineBranch_noTotal(st, entry) ==
  [st EXCEPT !.onlineChecks = @ + 1,
             !.downtimeEvents =
                IF endsDowntime(st) THEN Append(@, closedEvent(st, entry)) ELSE @,
             !.lastStatus = TRUE,
             !.currentStatus = "online"]

\* The branch taken when internetOnline.
onlineBranch(st, entry) ==
  [st EXCEPT !.onlineChecks = @ + 1,
             !.downtimeEvents =
                IF endsDowntime(st) THEN Append(@, closedEvent(st, entry)) ELSE @,
             !.totalDowntimeSeconds =
                IF endsDowntime(st) THEN @ + (entry.Timestamp - st.downtimeStart) ELSE @,
             !.lastStatus = TRUE,
             !.currentStatus = "online"]

\* offlineBranch with "offlineChecks++" moved under the condition that starts
\* a downtime period: it counts periods, not entries.
offlineBranch_countIntervals(st, entry) ==
  [st EXCEPT !.offlineChecks = IF startsDowntime(st) THEN @ + 1 ELSE @,
             !.downtimeStart = IF startsDowntime(st) THEN entry.Timestamp ELSE @,
             !.downtimeFailedHosts =
                IF startsDowntime(st) THEN failedHosts(entry.Results) ELSE @,
             !.lastStatus = FALSE,
             !.currentStatus = "offline"]

\* offlineBranch with "downtimeFailedHosts = failedHosts" moved out of the
\* condition: every offline entry overwrites the hosts of the period.
offlineBranch_lastFailure(st, entry) ==
  [st EXCEPT !.offlineChecks = @ + 1,
             !.downtimeStart = IF startsDowntime(st) THEN entry.Timestamp ELSE @,
             !.downtimeFailedHosts = failedHosts(entry.Results),
             !.lastStatus = FALSE,
             !.currentStatus = "offline"]

\* offlineBranch that begins the event list anew with every downtime
\* period: the events closed before it are forgotten.
offlineBranch_forgetEarlier(st, entry) ==
  [st EXCEPT !.offlineChecks = @ + 1,
             !.downtimeEvents = IF startsDowntime(st) THEN <<>> ELSE @,
             !.downtimeStart = IF startsDowntime(st) THEN entry.Timestamp ELSE @,
             !.downtimeFailedHosts =
                IF startsDowntime(st) THEN failedHosts(entry.Results) ELSE @,
             !.lastStatus = FALSE,
             !.currentStatus = "offline"]

\* The branch taken when not internetOnline.
offlineBranch(st, entry) ==
  [st EXCEPT !.offlineChecks = @ + 1,
             !.downtimeStart = IF startsDowntime(st) THEN entry.Timestamp ELSE @,
             !.downtimeFailedHosts =
                IF startsDowntime(st) THEN failedHosts(entry.Results) ELSE @,
             !.lastStatus = FALSE,
             !.currentStatus = "offline"]

\* LoopBody with "lastCheckTime = &entry.Timestamp" moved into the online
\* branch.
LoopBody_checkTimeWhenOnline(st, entry) ==
  LET internetOnline == ~allFailed(entry.Results)
      branch == IF internetOnline THEN onlineBranch(st, entry)
                                  ELSE offlineBranch(st, entry)
  IN  [branch EXCEPT !.statusInitialized = TRUE,
                     !.lastCheckTime = IF internetOnline THEN <<entry.Timestamp>> ELSE @]

\* LoopBody that skips an entry whose timestamp equals that of the entry
\* before it.
LoopBody_skipSameTime(st, entry) ==
  LET internetOnline == ~allFailed(entry.Results)
      seen == [st EXCEPT !.lastCheckTime = <<entry.Timestamp>>]
      branch == IF internetOnline THEN onlineBranch(seen, entry)
                                  ELSE offlineBranch(seen, entry)
  IN  IF st.lastCheckTime = <<entry.Timestamp>> THEN st
      ELSE [branch EXCEPT !.statusInitialized = TRUE]

\* One iteration of "for _, entry := range logs".
LoopBody(st, entry) ==
  LET internetOnline == ~allFailed(entry.Results)
      seen == [st EXCEPT !.lastCheckTime = <<entry.Timestamp>>]
      branch == IF internetOnline THEN onlineBranch(seen, entry)
                                  ELSE offlineBranch(seen, entry)
  IN  [branch EXCEPT !.statusInitialized = TRUE]

\* ------------------------------------------------------------ after the loop
\* hasOngoing without the checks that an entry was visited.
hasOngoing_uninitialized(st) == ~st.lastStatus

\* "Handle ongoing downtime": the condition.
hasOngoing(st) == st.statusInitialized /\ ~st.lastStatus /\ st.lastCheckTime # <<>>

\* ongoingEvent with the duration taken up to the last entry visited instead
\* of up to the clock reading.
ongoingEvent_untilLastCheck(st, t) ==
  [ StartTime   |-> st.downtimeStart,
    EndTime     |-> <<>>,
    Duration    |-> st.lastCheckTime[1] - st.downtimeStart,
    IsOngoing   |-> TRUE,
    FailedHosts |-> st.downtimeFailedHosts ]

\* The DowntimeEvent appended for a downtime that is still open.
ongoingEvent(st, t) ==
  [ StartTime   |-> st.downtimeStart,
    EndTime     |-> <<>>,
    Duration    |-> t - st.downtimeStart,
    IsOngoing   |-> TRUE,
    FailedHosts |-> st.downtimeFailedHosts ]

\* uptimePercentage without "if totalChecks > 0": 0.0 / 0.0 is NaN, written
\* <<0, 0>>.
uptimePercentage_noGuard(onlineChecks, totalChecks) ==
  IF totalChecks = 0 THEN <<0, 0>> ELSE Float(onlineChecks * 100, totalChecks)

\* uptimePercentage.
uptimePercentage(onlineChecks, totalChecks) ==
  IF totalChecks > 0 THEN Float(onlineChecks * 100, totalChecks) ELSE <<0, 1>>

\* reverse without the swap loop: the events stay oldest first.
reverse_keepOrder(events) == events

\* The swap loop that puts the most recent event first.
reverse(events) == [i \in 1..Len(events) |-> events[Len(events) + 1 - i]]

\* recentDowntime pointing at the last element of the list.
recentDowntime_last(events) ==
  IF Len(events) > 0 THEN <<events[Len(events)]>> ELSE <<>>

\* recentDowntime.
recentDowntime(events) == IF Len(events) > 0 THEN <<events[1]>> ELSE <<>>

\* The code from "Handle ongoing downtime" to the return; n is len(logs) and
\* t the clock reading.
Return(st, n, t) ==
  LET events == IF hasOngoing(st)
                  THEN Append(st.downtimeEvents, ongoingEvent(st, t))
                  ELSE st.downtimeEvents
      seconds == IF hasOngoing(st)
                   THEN st.totalDowntimeSeconds + (t - st.downtimeStart)
                   ELSE st.totalDowntimeSeconds
      sorted == reverse(events)
  IN  [ CurrentStatus      |-> st.currentStatus,
        TotalChecks        |-> n,
        OnlineChecks       |-> st.onlineChecks,
        OfflineChecks      |-> st.offlineChecks,
        UptimePercentage   |-> uptimePercentage(st.onlineChecks, n),
        TotalDowntimeHours |-> Float(seconds, 3600),
        DowntimeEvents     |-> sorted,
        RecentDowntime     |-> recentDowntime(sorted),
        TimeSinceLastCheck |-> st.lastCheckTime ]

\* The whole function on a given input.
RECURSIVE rangeLoop(_, _)
rangeLoop(st, ls) ==
  IF ls = <<>> THEN st ELSE rangeLoop(LoopBody(st, Head(ls)), Tail(ls))

calculateStats(ls, t) == Return(rangeLoop(InitLocals, ls), Len(ls), t)

\* ------------------------------------------------------------ state machine
\* Timestamp of the last visited entry; the clock starts at 1.
LastTime == IF logs = <<>> THEN 1 ELSE logs[Len(logs)].Timestamp

NoStats == [ CurrentStatus |-> "none" ]

\* The log files before any process has run; no query is in progress.
StoreAtRest ==
  /\ clock = 1
  /\ files = <<>>
  /\ fsFile = <<>>
  /\ storePc = "off"
  /\ readArgs = <<>>
  /\ readResult = <<>>

\* No goroutine of main has been started.
MonAtRest ==
  /\ mainPc = "off"
  /\ monPc = "off"
  /\ produced = 0
  /\ resultChan = <<>>
  /\ wHeld = <<>>

\* Ping has not been called.
PingAtRest ==
  /\ pingPc = "off"
  /\ result = <<>>
  /\ sinceStart = 0
  /\ port = 1
  /\ lastErr = <<>>

\* calculateStats has not been called.
CalcAtRest ==
  /\ logs = <<>>
  /\ locals = InitLocals
  /\ pc = "off"
  /\ now = 1
  /\ stats = NoStats

Init ==
  /\ logs = <<>>
  /\ locals = InitLocals
  /\ pc = "loop"
  /\ now = 1
  /\ stats = NoStats
  /\ StoreAtRest
  /\ MonAtRest
  /\ PingAtRest

\* The range loop visits the next entry of the input, which ReadLogs returns
\* in ascending timestamp order.
LoopIter ==
  /\ pc = "loop"
  /\ Len(logs) < MaxRounds
  /\ \E ts \in LastTime..MaxTime, results \in ResultLists :
       LET entry == [Timestamp |-> ts, Results |-> results]
       IN  /\ logs' = Append(logs, entry)
           /\ locals' = LoopBody(locals, entry)
  /\ UNCHANGED <<pc, now, stats, storeVars, monVars, pingVars>>

\* The input is exhausted: the code after the loop runs and the function
\* returns.  The clock is read no earlier than the last timestamp.
LoopExit ==
  /\ pc = "loop"
  /\ \E t \in LastTime..MaxTime :
       /\ now' = t
       /\ stats' = Return(locals, Len(logs), t)
  /\ pc' = "done"
  /\ UNCHANGED <<logs, locals, storeVars, monVars, pingVars>>

Next == LoopIter \/ LoopExit

Spec == Init /\ [][Next]_vars

\* The range loop on an input whose timestamps are in any order: log files
\* written under a clock that was set back, or edited by hand.
LoopIterAnyOrder ==
  /\ pc = "loop"
  /\ Len(logs) < MaxRounds
  /\ \E ts \in 1..MaxTime, results \in ResultLists :
       LET entry == [Timestamp |-> ts, Results |-> results]
       IN  /\ logs' = Append(logs, entry)
           /\ locals' = LoopBody(locals, entry)
  /\ UNCHANGED <<pc, now, stats, storeVars, monVars, pingVars>>

NextAnyOrder == LoopIterAnyOrder \/ LoopExit

SpecAnyOrder == Init /\ [][NextAnyOrder]_vars

\* The range loop on an input in ascending timestamp order whose entries come
\* from monitors with different host lists.
LoopIterAnyConfig ==
  /\ pc = "loop"
  /\ Len(logs) < MaxRounds
  /\ \E ts \in LastTime..MaxTime, results \in ResultListsOfAnyConfig :
       LET entry == [Timestamp |-> ts, Results |-> results]
       IN  /\ logs' = Append(logs, entry)
           /\ locals' = LoopBody(locals, entry)
  /\ UNCHANGED <<pc, now, stats, storeVars, monVars, pingVars>>

NextAnyConfig == LoopIterAnyConfig \/ LoopExit

SpecAnyConfig == Init /\ [][NextAnyConfig]_vars

\* ------------------------------------------------------------ log files
\* time.Now().Format("2006-01-02"): the calendar day of a clock reading.  A
\* log file is named after a day; the names compare as the days do.
Date(t) == (t - 1) \div TicksPerDay + 1

\* NewFileStorage: the files after os.OpenFile with O_APPEND|O_CREATE on the
\* file named after the day of t.
NewFileStorage(fs, t) ==
  IF Date(t) \in DOMAIN fs THEN fs
  ELSE [d \in DOMAIN fs \cup {Date(t)} |-> IF d \in DOMAIN fs THEN fs[d] ELSE <<>>]

\* FileStorage.Save: one LogEntry, stamped time.Now(), appended to the file.
Save(fs, name, t, results) ==
  [fs EXCEPT ![name] = Append(@, [Timestamp |-> t, Results |-> results])]

RECURSIVE Ascending(_)
Ascending(S) ==
  IF S = {} THEN <<>>
  ELSE LET m == CHOOSE x \in S : \A y \in S : x <= y
       IN  <<m>> \o Ascending(S \ {m})

RECURSIVE Descending(_)
Descending(S) ==
  IF S = {} THEN <<>>
  ELSE LET m == CHOOSE x \in S : \A y \in S : x >= y
       IN  <<m>> \o Descending(S \ {m})

\* Glob that lists the newest file first.
Glob_newestFirst(fs) == Descending(DOMAIN fs)

\* filepath.Glob: the names of the log files, sorted.
Glob(fs) == Ascending(DOMAIN fs)

\* inWindow with an exclusive end: an entry stamped endTime is dropped.
inWindow_endExclusive(entry, startTime, endTime) ==
  /\ ~(startTime # <<>> /\ entry.Timestamp < startTime[1])
  /\ ~(endTime # <<>> /\ entry.Timestamp >= endTime[1])

\* "Filter by time range if specified": the entry passes both tests.
inWindow(entry, startTime, endTime) ==
  /\ ~(startTime # <<>> /\ entry.Timestamp < startTime[1])
  /\ ~(endTime # <<>> /\ entry.Timestamp > endTime[1])

\* ReadLogs: the entries of the files in the order of Glob, each file from
\* its first line to its last, without the entries outside the window.
RECURSIVE readFiles(_, _, _, _)
readFiles(fs, names, startTime, endTime) ==
  IF names = <<>> THEN <<>>
  ELSE SelectSeq(fs[Head(names)], LAMBDA e : inWindow(e, startTime, endTime))
         \o readFiles(fs, Tail(names), startTime, endTime)

ReadLogs(fs, startTime, endTime) == readFiles(fs, Glob(fs), startTime, endTime)

\* Number of entries in all files.
RECURSIVE countEntries(_, _)
countEntries(fs, names) ==
  IF names = <<>> THEN 0 ELSE Len(fs[Head(names)]) + countEntries(fs, Tail(names))

Stored == countEntries(files, Glob(files))

\* An optional time: nil or a clock reading.
OptionalTimes == {<<>>} \cup { <<t>> : t \in 1..MaxClock }

InitStore ==
  /\ clock = 1
  /\ files = <<>>
  /\ fsFile = <<>>
  /\ storePc = "history"
  /\ readArgs = <<>>
  /\ readResult = <<>>
  /\ CalcAtRest
  /\ MonAtRest
  /\ PingAtRest

\* A process starts: main calls NewFileStorage.  One process runs at a time.
StartProcess ==
  /\ storePc = "history"
  /\ fsFile = <<>>
  /\ files' = NewFileStorage(files, clock)
  /\ fsFile' = <<Date(clock)>>
  /\ UNCHANGED <<clock, storePc, readArgs, readResult, calcVars, monVars, pingVars>>

\* The storage writer of the running process saves a batch; the batch is
\* written as its number in the history.
SaveBatch ==
  /\ storePc = "history"
  /\ fsFile # <<>>
  /\ Stored < MaxSaves
  /\ files' = Save(files, fsFile[1], clock, Stored + 1)
  /\ UNCHANGED <<clock, fsFile, storePc, readArgs, readResult, calcVars, monVars, pingVars>>

\* The running process exits.
StopProcess ==
  /\ storePc = "history"
  /\ fsFile # <<>>
  /\ fsFile' = <<>>
  /\ UNCHANGED <<clock, files, storePc, readArgs, readResult, calcVars, monVars, pingVars>>

\* Time passes; the clock never goes back.
Tick ==
  /\ storePc = "history"
  /\ clock < MaxClock
  /\ clock' = clock + 1
  /\ UNCHANGED <<files, fsFile, storePc, readArgs, readResult, calcVars, monVars, pingVars>>

\* handleLogs or handleStats calls ReadLogs on the files as they are.
Read ==
  /\ storePc = "history"
  /\ \E startTime \in OptionalTimes, endTime \in OptionalTimes :
       /\ readArgs' = <<startTime, endTime>>
       /\ readResult' = ReadLogs(files, startTime, endTime)
  /\ storePc' = "read"
  /\ UNCHANGED <<clock, files, fsFile, calcVars, monVars, pingVars>>

NextStore == StartProcess \/ SaveBatch \/ StopProcess \/ Tick \/ Read

SpecStore == InitStore /\ [][NextStore]_vars

\* ------------------------------------------------- monitor, writer, main
\* The batches of the log file of the running process, in file order.
SavedBatches ==
  IF fsFile = <<>> THEN <<>>
  ELSE [i \in 1..Len(files[fsFile[1]]) |-> files[fsFile[1]][i].Results]

\* The process runs: main has not returned and no goroutine has panicked.
Alive == mainPc \in {"running", "sleeping", "closed"} /\ monPc # "panic"

\* stopChan is closed from the signal on.
stopClosed == mainPc \in {"sleeping", "closed", "exited"}

\* resultChan is closed after the sleep.
resultClosed == mainPc \in {"closed", "exited"}

\* main up to "<-sigChan": storage opened, channels made, goroutines started;
\* Start is in its initial PingAll, the writer waits on resultChan.
InitMon ==
  /\ mainPc = "running"
  /\ monPc = "pingAll"
  /\ produced = 0
  /\ resultChan = <<>>
  /\ wHeld = <<>>
  /\ clock = 1
  /\ files = NewFileStorage(<<>>, 1)
  /\ fsFile = <<Date(1)>>
  /\ storePc = "off"
  /\ readArgs = <<>>
  /\ readResult = <<>>
  /\ CalcAtRest
  /\ PingAtRest

\* Start: m.PingAll() returns the next batch.
PingAllReturns ==
  /\ Alive
  /\ monPc = "pingAll"
  /\ produced' = produced + 1
  /\ monPc' = "send"
  /\ UNCHANGED <<mainPc, resultChan, wHeld, calcVars, storeVars, pingVars>>

\* Start: "resultChan <- results".  A send on a closed channel panics; a
\* send on a full buffer waits.
Send ==
  /\ Alive
  /\ monPc = "send"
  /\ IF resultClosed
       THEN monPc' = "panic" /\ UNCHANGED resultChan
       ELSE /\ Len(resultChan) < ChanCap
            /\ resultChan' = Append(resultChan, produced)
            /\ monPc' = "select"
  /\ UNCHANGED <<mainPc, produced, wHeld, calcVars, storeVars, pingVars>>

\* Start: the select takes "case <-ticker.C" and calls PingAll.
TickerFires ==
  /\ Alive
  /\ monPc = "select"
  /\ produced < MaxBatches
  /\ monPc' = "pingAll"
  /\ UNCHANGED <<mainPc, produced, resultChan, wHeld, calcVars, storeVars, pingVars>>

\* Start: the select takes "case <-stopChan" and returns.
StopReceived ==
  /\ Alive
  /\ monPc = "select"
  /\ stopClosed
  /\ monPc' = "returned"
  /\ UNCHANGED <<mainPc, produced, resultChan, wHeld, calcVars, storeVars, pingVars>>

\* Storage writer: "for results := range resultChan" receives a batch; a
\* closed channel still hands out what its buffer holds.
WriterReceives ==
  /\ Alive
  /\ wHeld = <<>>
  /\ resultChan # <<>>
  /\ wHeld' = <<Head(resultChan)>>
  /\ resultChan' = Tail(resultChan)
  /\ UNCHANGED <<mainPc, monPc, produced, calcVars, clock, fsFile, files,
                 storePc, readArgs, readResult, pingVars>>

\* Storage writer: fileStorage.Save(results).
WriterSaves ==
  /\ Alive
  /\ wHeld # <<>>
  /\ files' = Save(files, fsFile[1], clock, wHeld[1])
  /\ wHeld' = <<>>
  /\ UNCHANGED <<mainPc, monPc, produced, resultChan, calcVars, clock, fsFile,
                 storePc, readArgs, readResult, pingVars>>

\* main: the signal arrives, close(stopChan), time.Sleep begins.
Signal ==
  /\ mainPc = "running"
  /\ monPc # "panic"
  /\ mainPc' = "sleeping"
  /\ UNCHANGED <<monPc, produced, resultChan, wHeld, calcVars, storeVars, pingVars>>

\* What one second of sleep is taken to be enough for: the writer has saved
\* what was sent, and Start is past its send and its select.  A PingAll can
\* take longer (each Ping waits up to the 5 s timeout).
SleepOver ==
  /\ monPc \in {"pingAll", "returned"}
  /\ resultChan = <<>>
  /\ wHeld = <<>>

\* main: time.Sleep returns, close(resultChan).
CloseResultChan ==
  /\ mainPc = "sleeping"
  /\ monPc # "panic"
  /\ SleepOver
  /\ mainPc' = "closed"
  /\ UNCHANGED <<monPc, produced, resultChan, wHeld, calcVars, storeVars, pingVars>>

\* main returns: the process exits and takes its goroutines with it.
Exit ==
  /\ mainPc = "closed"
  /\ monPc # "panic"
  /\ mainPc' = "exited"
  /\ UNCHANGED <<monPc, produced, resultChan, wHeld, calcVars, storeVars, pingVars>>

NextMon ==
  \/ PingAllReturns \/ Send \/ TickerFires \/ StopReceived
  \/ WriterReceives \/ WriterSaves
  \/ Signal \/ CloseResultChan \/ Exit

SpecMon == InitMon /\ [][NextMon]_vars

\* ----------------------------------------------------------- Monitor.Ping
\* ports := []string{"443", "80"}
ports == <<"443", "80">>

\* What a lookup or a dial can take: no time, a millisecond, or its whole
\* timeout.
Durations == {0, 1, timeout}

\* dnsErr.Error() of the errors resolver.LookupHost returns for the host.
DnsErrors(host) ==
  { "lookup " \o host \o ": no such host",
    "lookup " \o host \o ": i/o timeout" }

\* err.Error() of the errors net.DialTimeout returns for
\* net.JoinHostPort(host, p).
DialErrors(host, p) ==
  { "dial tcp " \o host \o ":" \o p \o ": i/o timeout",
    "dial tcp " \o host \o ":" \o p \o ": connect: connection refused" }

\* "if dnsErr != nil": the result returned.
dnsFailed(res, dnsErr, dnsLatency) ==
  [res EXCEPT !.Success = FALSE,
              !.Error = "DNS lookup failed: " \o dnsErr,
              !.Latency = dnsLatency]

\* "if len(addrs) == 0": the result returned.
noAddresses(res, dnsLatency) ==
  [res EXCEPT !.Success = FALSE,
              !.Error = "No IP addresses found for host",
              !.Latency = dnsLatency]

\* "if latency > maxAcceptableLatency": the result returned.
tooSlow(res, latency) ==
  [res EXCEPT !.Success = FALSE,
              !.Error = "Connection too slow: " \o ToString(latency)
                          \o "ms (max acceptable: "
                          \o ToString(maxAcceptableLatency) \o "ms)",
              !.Latency = latency]

\* connected without the test of the latency.
connected_noLimit(res, latency) ==
  [res EXCEPT !.Success = TRUE, !.Latency = latency]

\* "if err == nil": the result returned after conn.Close().
connected(res, latency) ==
  IF latency > maxAcceptableLatency
    THEN tooSlow(res, latency)
    ELSE [res EXCEPT !.Success = TRUE, !.Latency = latency]

\* "All ports failed": the result returned after the loop.
allPortsFailed(res, err, latency) ==
  [res EXCEPT !.Success = FALSE, !.Error = err, !.Latency = latency]

\* Ping(host) up to the call of LookupHost: result holds Host and Timestamp
\* and the zero value in its other fields.
InitPing ==
  /\ pingPc = "lookup"
  /\ \E h \in 1..Len(hosts), start \in 1..MaxTime :
       result = [Host |-> hosts[h], Success |-> FALSE, Latency |-> 0,
                 Error |-> "", Timestamp |-> start]
  /\ sinceStart = 0
  /\ port = 1
  /\ lastErr = <<>>
  /\ CalcAtRest
  /\ StoreAtRest
  /\ MonAtRest

\* LookupHost returns an error: Ping returns.
LookupHostFails ==
  /\ pingPc = "lookup"
  /\ \E d \in Durations, dnsErr \in DnsErrors(result.Host) :
       /\ sinceStart' = sinceStart + d
       /\ result' = dnsFailed(result, dnsErr, sinceStart + d)
  /\ pingPc' = "returned"
  /\ UNCHANGED <<port, lastErr, calcVars, storeVars, monVars>>

\* LookupHost returns no error and no address: Ping returns.
LookupHostEmpty ==
  /\ pingPc = "lookup"
  /\ \E d \in Durations :
       /\ sinceStart' = sinceStart + d
       /\ result' = noAddresses(result, sinceStart + d)
  /\ pingPc' = "returned"
  /\ UNCHANGED <<port, lastErr, calcVars, storeVars, monVars>>

\* LookupHost returns addresses: Ping goes on to the ports.
LookupHostResolves ==
  /\ pingPc = "lookup"
  /\ \E d \in Durations : sinceStart' = sinceStart + d
  /\ pingPc' = "dial"
  /\ UNCHANGED <<result, port, lastErr, calcVars, storeVars, monVars>>

\* DialTimeout connects: Ping returns, with success unless too slow.
DialConnects ==
  /\ pingPc = "dial"
  /\ \E d \in Durations :
       /\ sinceStart' = sinceStart + d
       /\ result' = connected(result, sinceStart + d)
  /\ pingPc' = "returned"
  /\ UNCHANGED <<port, lastErr, calcVars, storeVars, monVars>>

\* DialTimeout returns an error: Ping tries the next port, or returns the
\* last error when there is none.
DialFails ==
  /\ pingPc = "dial"
  /\ \E d \in Durations, err \in DialErrors(result.Host, ports[port]) :
       /\ sinceStart' = sinceStart + d
       /\ lastErr' = <<err>>
       /\ IF port < Len(ports)
            THEN /\ port' = port + 1
                 /\ UNCHANGED <<pingPc, result>>
            ELSE /\ result' = allPortsFailed(result, err, sinceStart + d)
                 /\ pingPc' = "returned"
                 /\ UNCHANGED port
  /\ UNCHANGED <<calcVars, storeVars, monVars>>

NextPing ==
  \/ LookupHostFails \/ LookupHostEmpty \/ LookupHostResolves
  \/ DialConnects \/ DialFails

SpecPing == InitPing /\ [][NextPing]_vars

\* ------------------------------------------------------------ vocabulary of the properties
Done == pc = "done"

N == Len(logs)

TS(i) == logs[i].Timestamp

\* Entry i has no probe results.
Degenerate(i) == logs[i].Results = <<>>

\* At least one probe result of entry i succeeded.
AnySuccess(i) == \E k \in DOMAIN logs[i].Results : logs[i].Results[k].Success

\* The entries that close a run of offline entries: online, right after an
\* offline one.
RunEnds == { j \in 2..N : AnySuccess(j) /\ ~AnySuccess(j - 1) }

\* First entry of the maximal run of offline entries that ends right before j.
RunStart(j) ==
  CHOOSE i \in 1..(j - 1) :
    /\ \A k \in i..(j - 1) : ~AnySuccess(k)
    /\ i = 1 \/ AnySuccess(i - 1)

\* Position of the run closed by j among the closed runs, oldest first.
Rank(j) == Cardinality({ h \in RunEnds : h <= j })

IsClosed(e) == e.EndTime # <<>>

\* The events of the result that carry an end time, in the order of the result.
ClosedEvents == SelectSeq(stats.DowntimeEvents, IsClosed)

\* The positions of the result's events that are ongoing or carry no end time.
OngoingAt == { k \in DOMAIN stats.DowntimeEvents :
                 stats.DowntimeEvents[k].IsOngoing
                 \/ stats.DowntimeEvents[k].EndTime = <<>> }

\* ------------------------------------------------------------ C1
\* C1 (all-fail rule): every entry with a non-empty result list is classified
\* online exactly when at least one of its results succeeded: right after the
\* loop has visited it, lastStatus and currentStatus say so, and onlineChecks
\* counts exactly the non-empty entries with a success.
C1_AllFailRule ==
  /\ (N > 0 /\ ~Degenerate(N)) =>
        /\ locals.lastStatus = AnySuccess(N)
        /\ locals.currentStatus = (IF AnySuccess(N) THEN "online" ELSE "offline")
  /\ locals.onlineChecks = Cardinality({ i \in 1..N : ~Degenerate(i) /\ AnySuccess(i) })

\* An all-failed round followed by a round with one failure and one success.
C1_Witness ==
  /\ N = 2
  /\ ~Degenerate(1) /\ ~AnySuccess(1)
  /\ Len(logs[2].Results) >= 2
  /\ ~logs[2].Results[1].Success /\ logs[2].Results[2].Success
  /\ locals.currentStatus = "online"
  /\ locals.offlineChecks = 1 /\ locals.onlineChecks = 1

\* ------------------------------------------------------------ C2
\* C2 (interval closure): the closed events of the result correspond one to one
\* to the maximal runs of offline entries that an online entry follows; the
\* event of a run starts at the run's first entry, ends at the online entry
\* that follows the run, is not ongoing and lasts end - start seconds.
C2_IntervalClosure ==
  Done =>
    /\ Len(ClosedEvents) = Cardinality(RunEnds)
    /\ \A j \in RunEnds :
         LET e == ClosedEvents[Len(ClosedEvents) + 1 - Rank(j)]
         IN  /\ e.StartTime = TS(RunStart(j))
             /\ e.EndTime = <<TS(j)>>
             /\ e.IsOngoing = FALSE
             /\ e.Duration = TS(j) - TS(RunStart(j))

\* Online, offline, online at three different times: one event of one second
\* or more.
C2_Witness ==
  /\ Done /\ N = 3
  /\ AnySuccess(1) /\ ~AnySuccess(2) /\ ~Degenerate(2) /\ AnySuccess(3)
  /\ TS(2) < TS(3)
  /\ Len(stats.DowntimeEvents) = 1
  /\ stats.DowntimeEvents[1].Duration > 0

\* ------------------------------------------------------------ C3
\* C3 (ongoing detection): the result holds exactly one ongoing event, without
\* end time, when the last entry visited was offline, and none when it was
\* online or nothing was visited; the ongoing event starts at the first entry
\* of the trailing run of offline entries.
C3_OngoingDetection ==
  Done =>
    IF N > 0 /\ ~AnySuccess(N)
      THEN /\ Cardinality(OngoingAt) = 1
           /\ \A k \in OngoingAt :
                LET e == stats.DowntimeEvents[k]
                    first == CHOOSE i \in 1..N :
                               /\ \A h \in i..N : ~AnySuccess(h)
                               /\ i = 1 \/ AnySuccess(i - 1)
                IN  /\ e.IsOngoing
                    /\ e.EndTime = <<>>
                    /\ e.StartTime = TS(first)
      ELSE OngoingAt = {}

\* Online, then two offline rounds at later, different times.
C3_Witness ==
  /\ Done /\ N = 3
  /\ AnySuccess(1) /\ ~AnySuccess(2) /\ ~AnySuccess(3)
  /\ TS(1) < TS(2) /\ TS(2) < TS(3)
  /\ \E k \in OngoingAt : stats.DowntimeEvents[k].StartTime = TS(2)

\* ------------------------------------------------------------ C4
\* Input without its entries that have no results.
NonDegenerate(ls) == SelectSeq(ls, LAMBDA e : e.Results # <<>>)

\* C4 (degenerate rounds are not counted): the counts and the uptime
\* percentage of the result equal those of the same input without its entries
\* that have no results.
C4_DegenerateNotCounted ==
  Done =>
    LET ref == calculateStats(NonDegenerate(logs), now)
    IN  /\ stats.TotalChecks = ref.TotalChecks
        /\ stats.OnlineChecks = ref.OnlineChecks
        /\ stats.OfflineChecks = ref.OfflineChecks
        /\ stats.UptimePercentage = ref.UptimePercentage

\* ------------------------------------------------------------ C5
\* A downtime interval is open between the first offline entry and the
\* next online one.
IntervalOpen(st) == st.statusInitialized /\ ~st.lastStatus

\* C5 (degenerate rounds give no verdict): visiting an entry without results
\* opens no interval, closes none, appends no event and leaves currentStatus
\* as it was.
C5_DegenerateNoVerdict ==
  [][ (pc = "loop" /\ Len(logs') = Len(logs) + 1
         /\ logs'[Len(logs')].Results = <<>>)
      => /\ IntervalOpen(locals') = IntervalOpen(locals)
         /\ locals'.downtimeEvents = locals.downtimeEvents
         /\ locals'.currentStatus = locals.currentStatus ]_vars

\* ------------------------------------------------------------ C6
\* C6 (event list invariant): two closed events never overlap (one ends no
\* later than the other starts), at most one event is ongoing, and an ongoing
\* event starts no earlier than every closed event ends.
C6_EventListInvariant ==
  Done =>
    LET ev == stats.DowntimeEvents
    IN  /\ \A i, k \in DOMAIN ev :
             (i # k /\ IsClosed(ev[i]) /\ IsClosed(ev[k])) =>
                \/ ev[i].EndTime[1] <= ev[k].StartTime
                \/ ev[k].EndTime[1] <= ev[i].StartTime
        /\ Cardinality({ k \in DOMAIN ev : ev[k].IsOngoing }) <= 1
        /\ \A i, k \in DOMAIN ev :
             (ev[i].IsOngoing /\ IsClosed(ev[k])) =>
                ev[k].EndTime[1] <= ev[i].StartTime

\* A closed event and a later ongoing one.
C6_Witness ==
  /\ Done
  /\ \E i, k \in DOMAIN stats.DowntimeEvents :
       /\ stats.DowntimeEvents[i].IsOngoing
       /\ IsClosed(stats.DowntimeEvents[k])
       /\ stats.DowntimeEvents[k].StartTime < stats.DowntimeEvents[k].EndTime[1]
       /\ stats.DowntimeEvents[k].EndTime[1] < stats.DowntimeEvents[i].StartTime

\* ------------------------------------------------------------ C7
\* C7 (ordering): the events of the result are sorted by start time, latest
\* first, and an ongoing event is the first of the list.
C7_MostRecentFirst ==
  Done =>
    LET ev == stats.DowntimeEvents
    IN  /\ \A i, k \in DOMAIN ev : i < k => ev[i].StartTime >= ev[k].StartTime
        /\ \A k \in DOMAIN ev : ev[k].IsOngoing => k = 1

\* Offline, online, offline at three different times: the ongoing event comes
\* first, the closed one second.
C7_Witness ==
  /\ Done /\ N = 3
  /\ ~AnySuccess(1) /\ AnySuccess(2) /\ ~AnySuccess(3)
  /\ Len(stats.DowntimeEvents) = 2
  /\ stats.DowntimeEvents[1].IsOngoing
  /\ stats.DowntimeEvents[1].StartTime = TS(3)
  /\ stats.DowntimeEvents[2].StartTime = TS(1)
  /\ TS(1) < TS(3)

\* ------------------------------------------------------------ C8
\* C8 (no double counting): when every entry has at least one result, the
\* online entries are counted in onlineChecks and the offline ones in
\* offlineChecks, each once, and both add up to totalChecks, the number of
\* entries.
C8_NoDoubleCounting ==
  (Done /\ \A i \in 1..N : ~Degenerate(i)) =>
    /\ stats.OnlineChecks = Cardinality({ i \in 1..N : AnySuccess(i) })
    /\ stats.OfflineChecks = Cardinality({ i \in 1..N : ~AnySuccess(i) })
    /\ stats.OnlineChecks + stats.OfflineChecks = stats.TotalChecks
    /\ stats.TotalChecks = N

\* Three rounds with results, one online and two offline in a row.
C8_Witness ==
  /\ Done /\ N = 3
  /\ \A i \in 1..N : ~Degenerate(i)
  /\ ~AnySuccess(1) /\ ~AnySuccess(2) /\ AnySuccess(3)
  /\ stats.OnlineChecks = 1 /\ stats.OfflineChecks = 2 /\ stats.TotalChecks = 3

\* ------------------------------------------------------------ C9
\* C9 (empty input): on an input without entries the result has all counts
\* zero, an uptime percentage and downtime hours of zero, currentStatus
\* "online", no events, no recentDowntime and no last-check time.
C9_EmptyInput ==
  (Done /\ logs = <<>>) =>
    stats = [ CurrentStatus      |-> "online",
              TotalChecks        |-> 0,
              OnlineChecks       |-> 0,
              OfflineChecks      |-> 0,
              UptimePercentage   |-> <<0, 1>>,
              TotalDowntimeHours |-> <<0, 1>>,
              DowntimeEvents     |-> <<>>,
              RecentDowntime     |-> <<>>,
              TimeSinceLastCheck |-> <<>> ]

\* The function has returned on the empty input, queried after the clock's
\* first reading.
C9_Witness ==
  /\ Done /\ logs = <<>>
  /\ now > 1
  /\ stats.TotalChecks = 0

\* ------------------------------------------------------------ C10
\* C10 (current status and last check): on a non-empty input whose entries all
\* have results, currentStatus is "offline" exactly when the last entry was
\* offline and "online" otherwise, and the last-check time is the timestamp of
\* the last entry.
C10_CurrentStatusLastCheck ==
  (Done /\ N > 0 /\ \A i \in 1..N : ~Degenerate(i)) =>
    /\ stats.CurrentStatus = (IF AnySuccess(N) THEN "online" ELSE "offline")
    /\ stats.TimeSinceLastCheck = <<TS(N)>>

\* An online round and a later offline one.
C10_Witness ==
  /\ Done /\ N = 2
  /\ ~Degenerate(1) /\ ~Degenerate(2)
  /\ AnySuccess(1) /\ ~AnySuccess(2)
  /\ TS(1) < TS(2)
  /\ stats.CurrentStatus = "offline"
  /\ stats.TimeSinceLastCheck = <<TS(2)>>

\* ------------------------------------------------------------ C11
\* The hosts of the failed results of entry i, in the order of the results.
FailedOf(i) ==
  LET failed == SelectSeq(logs[i].Results, LAMBDA r : ~r.Success)
  IN  [k \in 1..Len(failed) |-> failed[k].Host]

\* First entry of the trailing run of offline entries.
TrailStart ==
  CHOOSE i \in 1..N :
    /\ \A h \in i..N : ~AnySuccess(h)
    /\ i = 1 \/ AnySuccess(i - 1)

\* C11 (first-failure attribution): every event, closed or ongoing, carries
\* the start time and the failed hosts of the first offline entry of its
\* interval, the hosts in the order of that entry's results, whatever the
\* later offline entries of the interval list.
C11_FirstFailureAttribution ==
  Done =>
    /\ \A j \in RunEnds :
         LET e == ClosedEvents[Len(ClosedEvents) + 1 - Rank(j)]
         IN  /\ e.FailedHosts = FailedOf(RunStart(j))
             /\ e.StartTime = TS(RunStart(j))
    /\ \A k \in OngoingAt :
         /\ stats.DowntimeEvents[k].FailedHosts = FailedOf(TrailStart)
         /\ stats.DowntimeEvents[k].StartTime = TS(TrailStart)

\* An interval of two offline entries, the first with one failed host and the
\* second with two, closed by an online entry.
C11_Witness ==
  /\ Done /\ N = 3
  /\ ~AnySuccess(1) /\ ~AnySuccess(2) /\ AnySuccess(3)
  /\ Len(FailedOf(1)) = 1
  /\ Len(FailedOf(2)) = 2
  /\ TS(1) < TS(2)
  /\ Len(stats.DowntimeEvents) = 1
  /\ stats.DowntimeEvents[1].FailedHosts = FailedOf(1)

\* ------------------------------------------------------------ C12
\* Duration of the ongoing event of a result; -1 when it has none.
OngoingDuration(s) ==
  IF \E k \in DOMAIN s.DowntimeEvents : s.DowntimeEvents[k].IsOngoing
    THEN LET k == CHOOSE h \in DOMAIN s.DowntimeEvents : s.DowntimeEvents[h].IsOngoing
         IN  s.DowntimeEvents[k].Duration
    ELSE -1

\* C12 (ongoing duration): when the input ends offline the ongoing event lasts
\* now - startTime seconds, and a query of the same entries at a later clock
\* reading reports a duration at least as long.
C12_OngoingDuration ==
  (Done /\ N > 0 /\ ~AnySuccess(N)) =>
    /\ OngoingDuration(stats) = now - TS(TrailStart)
    /\ \A t \in now..MaxTime :
         OngoingDuration(calculateStats(logs, t)) >= OngoingDuration(stats)

\* An input that ends offline, queried after its last entry and before the
\* last clock reading.
C12_Witness ==
  /\ Done /\ N = 2
  /\ AnySuccess(1) /\ ~AnySuccess(2)
  /\ TS(2) < now /\ now < MaxTime
  /\ OngoingDuration(stats) = now - TS(2)
  /\ OngoingDuration(calculateStats(logs, MaxTime)) > OngoingDuration(stats)

\* ------------------------------------------------------------ C13
RECURSIVE SumDurations(_)
SumDurations(events) ==
  IF events = <<>> THEN 0 ELSE Head(events).Duration + SumDurations(Tail(events))

\* C13 (total downtime): totalDowntimeHours is the sum of the durations of all
\* events of the result, closed and ongoing, divided by 3600.
C13_TotalDowntime ==
  Done => stats.TotalDowntimeHours = Float(SumDurations(stats.DowntimeEvents), 3600)

\* A closed event and an ongoing one, both of one second or more.
C13_Witness ==
  /\ Done
  /\ Len(stats.DowntimeEvents) = 2
  /\ stats.DowntimeEvents[1].IsOngoing /\ stats.DowntimeEvents[1].Duration > 0
  /\ stats.DowntimeEvents[2].Duration > 0
  /\ stats.TotalDowntimeHours = Float(2, 3600)

\* ------------------------------------------------------------ C14
\* C14 (uptime bound): onlineChecks lies between 0 and totalChecks; with
\* totalChecks > 0 the uptime percentage is onlineChecks / totalChecks * 100,
\* lies between 0 and 100 and is 100 exactly when no entry was offline; with
\* totalChecks = 0 it is 0.
C14_UptimeBound ==
  Done =>
    LET p == stats.UptimePercentage
    IN  /\ 0 <= stats.OnlineChecks /\ stats.OnlineChecks <= stats.TotalChecks
        /\ p[2] > 0
        /\ stats.TotalChecks > 0 =>
             /\ p[1] * stats.TotalChecks = stats.OnlineChecks * 100 * p[2]
             /\ 0 <= p[1] /\ p[1] <= 100 * p[2]
             /\ (p = <<100, 1>>) <=> (\A i \in 1..N : AnySuccess(i))
        /\ stats.TotalChecks = 0 => p = <<0, 1>>

\* One online entry out of three: a percentage strictly between 0 and 100.
C14_Witness ==
  /\ Done /\ N = 3
  /\ stats.OnlineChecks = 1
  /\ stats.UptimePercentage = <<100, 3>>

\* ------------------------------------------------------------ C15
\* C15 (recent downtime): recentDowntime is present exactly when the result
\* has events and is then the first of them: the ongoing event when the input
\* ends offline, the event closed last otherwise.
C15_RecentDowntime ==
  Done =>
    LET ev == stats.DowntimeEvents
        recent == stats.RecentDowntime
    IN  /\ (recent = <<>>) <=> (ev = <<>>)
        /\ ev # <<>> =>
             /\ recent = <<ev[1]>>
             /\ IF N > 0 /\ ~AnySuccess(N)
                  THEN recent[1].IsOngoing /\ recent[1].StartTime = TS(TrailStart)
                  ELSE /\ ~recent[1].IsOngoing
                       /\ \A j \in RunEnds : TS(j) <= recent[1].EndTime[1]
                       /\ \E j \in RunEnds :
                            /\ \A h \in RunEnds : h <= j
                            /\ recent[1].EndTime = <<TS(j)>>
                            /\ recent[1].StartTime = TS(RunStart(j))

\* Offline, online, offline: the ongoing event is the recent one, not the
\* closed one.
C15_Witness ==
  /\ Done /\ N = 3
  /\ ~AnySuccess(1) /\ AnySuccess(2) /\ ~AnySuccess(3)
  /\ TS(1) < TS(2) /\ TS(2) < TS(3)
  /\ Len(stats.DowntimeEvents) = 2
  /\ stats.RecentDowntime # <<>>
  /\ stats.RecentDowntime[1].IsOngoing
  /\ stats.RecentDowntime[1].StartTime = TS(3)

\* ------------------------------------------------------------ C19
\* The entries that start a maximal run of offline entries.
RunStarts == { i \in 1..N : ~AnySuccess(i) /\ (i = 1 \/ AnySuccess(i - 1)) }

\* C19 (out-of-order input): on timestamps in any order every entry still
\* takes the transition of its verdict and is counted once, and the result
\* has one event per maximal run of offline entries, one closed event per run
\* that an online entry follows.
C19_OutOfOrder ==
  /\ N > 0 => locals.statusInitialized /\ locals.lastStatus = AnySuccess(N)
  /\ Done =>
       /\ Len(stats.DowntimeEvents) = Cardinality(RunStarts)
       /\ Len(ClosedEvents) = Cardinality(RunEnds)
       /\ stats.OnlineChecks = Cardinality({ i \in 1..N : AnySuccess(i) })
       /\ stats.OfflineChecks = Cardinality({ i \in 1..N : ~AnySuccess(i) })
       /\ stats.OnlineChecks + stats.OfflineChecks = stats.TotalChecks
       /\ stats.TotalChecks = N
       /\ stats.CurrentStatus \in {"online", "offline"}

\* An offline entry followed by an online entry with an earlier timestamp:
\* one event, of negative duration.
C19_Witness ==
  /\ Done /\ N = 2
  /\ ~AnySuccess(1) /\ AnySuccess(2)
  /\ TS(2) < TS(1)
  /\ Len(stats.DowntimeEvents) = 1
  /\ stats.DowntimeEvents[1].Duration < 0

Terminated == mainPc = "exited" \/ monPc = "panic"

\* The batches 1..n in the order produced.
InOrder(n) == [i \in 1..n |-> i]

\* C16: persistent logging.  The log file never holds a batch twice or out
\* of order (it is a prefix of the batches produced), and once the process
\* has ended every batch PingAll produced is in the file, the batch in
\* flight at the shutdown signal included.
C16_PersistentLogging ==
  /\ mainPc # "off" =>
       /\ Len(SavedBatches) <= produced
       /\ SavedBatches = InOrder(Len(SavedBatches))
  /\ Terminated => SavedBatches = InOrder(produced)

\* ------------------------------------------------------------------ C17
\* C17: Round Source ordering.  After any history of process starts and
\* Save calls under a clock that never goes back, one process at a time,
\* the entries ReadLogs returns are in ascending timestamp order across all
\* files, and in the order they were saved.
C17_ReadLogsAscending ==
  storePc = "read" =>
    \A i \in 1..Len(readResult) : \A j \in 1..Len(readResult) :
      i < j => /\ readResult[i].Timestamp <= readResult[j].Timestamp
               /\ readResult[i].Results < readResult[j].Results

\* An unfiltered read of two files, where the process of the first day ran
\* past midnight and saved an entry of the second day into the first file.
C17_Witness ==
  /\ storePc = "read"
  /\ readArgs = <<<<>>, <<>>>>
  /\ DOMAIN files = {1, 2}
  /\ \E k \in 1..Len(files[1]) : Date(files[1][k].Timestamp) = 2
  /\ Len(files[2]) > 0
  /\ Len(readResult) = 3

\* ------------------------------------------------------------------ C18
\* The places of the stored entries: <<file, line>>.
Places == { <<d, k>> : d \in DOMAIN files, k \in 1..MaxSaves } \cap
          { p \in (DOMAIN files) \X (1..MaxSaves) : p[2] <= Len(files[p[1]]) }

EntryAt(p) == files[p[1]][p[2]]

\* Stored order: files by name, lines from first to last.
StoredBefore(p, q) == p[1] < q[1] \/ (p[1] = q[1] /\ p[2] < q[2])

\* start <= t <= end, where an absent bound does not constrain.
WithinWindow(t) ==
  /\ readArgs[1] = <<>> \/ readArgs[1][1] <= t
  /\ readArgs[2] = <<>> \/ t <= readArgs[2][1]

InWindowPlaces == { p \in Places : WithinWindow(EntryAt(p).Timestamp) }

\* C18: window filter.  ReadLogs(start, end) returns exactly the stored
\* entries with start <= timestamp <= end, both bounds inclusive, an absent
\* bound not constraining: each such entry once, at the position its stored
\* order gives it, and nothing else.
C18_WindowFilter ==
  storePc = "read" =>
    /\ Len(readResult) = Cardinality(InWindowPlaces)
    /\ \A p \in InWindowPlaces :
         readResult[1 + Cardinality({ q \in InWindowPlaces : StoredBefore(q, p) })]
           = EntryAt(p)

\* A read with both bounds, an entry stamped exactly start and one stamped
\* exactly end both returned, and a stored entry after end left out.
C18_Witness ==
  /\ storePc = "read"
  /\ readArgs[1] # <<>> /\ readArgs[2] # <<>>
  /\ readArgs[1][1] < readArgs[2][1]
  /\ \E i \in 1..Len(readResult) : readResult[i].Timestamp = readArgs[1][1]
  /\ \E i \in 1..Len(readResult) : readResult[i].Timestamp = readArgs[2][1]
  /\ \E p \in Places : EntryAt(p).Timestamp > readArgs[2][1]
  /\ Len(readResult) = 2

\* ------------------------------------------------------------------ C21
\* C21: probe result well-formedness.  The PingResult Ping returns has a
\* non-empty Error if and only if Success is false, on every path, and a
\* successful result has a latency of at most 10000 ms.
C21_WellFormedResult ==
  pingPc = "returned" =>
    /\ (result.Error # "") <=> (result.Success = FALSE)
    /\ result.Success => result.Latency <= 10000

\* Port 443 failed, port 80 connected, and the three waits add up to
\* exactly the maximum acceptable latency: a success at the limit.
C21_Witness ==
  /\ pingPc = "returned"
  /\ result.Success
  /\ result.Latency = 10000
  /\ port = 2
  /\ lastErr # <<>>

\* ------------------------------------------------------------------ C22
\* C22: shutdown never sends on a closed channel.  In every interleaving of
\* main's shutdown with Monitor.Start, the step in which Start executes
\* "resultChan <- results" is taken only while resultChan is open.
C22_NoSendOnClosed ==
  [][(monPc = "send" /\ monPc' # "send") => ~resultClosed]_vars

\* ------------------------------------------------------------------ C23
\* C23: monitor stop is eventually honoured.  A process in which stopChan
\* was closed does not end before Monitor.Start has returned: whenever the
\* run is over, Start has taken "case <-stopChan".
C23_StopHonoured ==
  Terminated => monPc = "returned"

\* ------------------------------------------------------------------ C24
\* The events calculateStats returns for the first k entries of the input
\* when called at time t.
EventsOfPrefix(k, t) == calculateStats(SubSeq(logs, 1, k), t).DowntimeEvents

\* The clock readings at which the first k entries can be the whole input.
TimesOfPrefix(k) == (IF k = 0 THEN 1 ELSE TS(k))..MaxTime

\* C24: closed events are stable under extension of the input.  For every
\* proper prefix S of an ascending input: the closed events of the result
\* for S are, unchanged and in the same order, the oldest closed events of
\* the result for the whole input, and an event ongoing for S stands at the
\* same place, counted from the oldest, with the same start time and failed
\* hosts, closed or still ongoing.
C24_ClosedEventsStable ==
  Done =>
    \A k \in 0..(N - 1) : \A t \in TimesOfPrefix(k) :
      LET old == EventsOfPrefix(k, t)
          oldClosed == SelectSeq(old, IsClosed)
          new == stats.DowntimeEvents
          shift == Len(new) - Len(old)
      IN  /\ Len(oldClosed) <= Len(ClosedEvents)
          /\ SubSeq(ClosedEvents, Len(ClosedEvents) - Len(oldClosed) + 1,
                    Len(ClosedEvents)) = oldClosed
          /\ shift >= 0
          /\ \A i \in DOMAIN old :
               /\ new[i + shift].StartTime = old[i].StartTime
               /\ new[i + shift].FailedHosts = old[i].FailedHosts
               /\ IsClosed(old[i]) => new[i + shift] = old[i]

\* Offline, online, offline: the event ongoing after one round is closed by
\* the second round, and the third round opens a new one beside it.
C24_Witness ==
  /\ Done /\ N = 3
  /\ ~AnySuccess(1) /\ ~Degenerate(1) /\ AnySuccess(2) /\ ~AnySuccess(3)
  /\ TS(1) < TS(2)
  /\ Len(EventsOfPrefix(1, TS(1))) = 1
  /\ ~IsClosed(EventsOfPrefix(1, TS(1))[1])
  /\ Len(stats.DowntimeEvents) = 2
  /\ Len(ClosedEvents) = 1
  /\ ClosedEvents[1].StartTime = TS(1)


====
